---- MODULE Spec2Model ----
(***************************************************************************)
(* Model of oschecks/check_heat-stack.py: the Nagios probe that creates a  *)
(* Heat stack, waits for it, and tears it down again, force-deleting the   *)
(* stuck resources of a stack whose deletion failed.                       *)
(*                                                                         *)
(* Spec      the probe from the template load (line 299) to its exit.      *)
(* SortSpec  topological_sort alone, run to its end on arbitrary graphs.   *)
(* PollSpec  wait_for_completion alone, on every answer of the service;    *)
(*           PollFairSpec is PollSpec with the loop always going on.       *)
(***************************************************************************)
EXTENDS Integers, Sequences, FiniteSets, TLC

----------------------------------------------------------------------------
(* Bounds of the model. *)

\* resources of a stack are named 1..MaxRes
MaxRes == 2
\* nodes of the graphs handed to topological_sort in SortSpec
MaxNodes == 3
\* largest --timeout / --timeout_delete tried
MaxTimeout == 10
\* largest timeout handed to wait_for_completion in PollSpec
MaxPollTimeout == 20

----------------------------------------------------------------------------
(* Program constants. *)

STATE_OK == 0
STATE_WARNING == 1
STATE_CRITICAL == 2
\* time.sleep(5); spent_time += 5
PollInterval == 5
\* time.sleep(15) after each call of force_delete_resource
GracePeriod == 15

\* names bound at module level that can be raised as exceptions
ModuleGlobals == {"FailedDeletion", "Exception"}

\* evaluating `raise <name>()`: an unbound name raises NameError instead
Raise(name) == IF name \in ModuleGlobals THEN name ELSE "NameError"

ResourceNames == 1..MaxRes
Nodes == 1..MaxNodes

\* stack.status values returned by heat_client.stacks.get
FailureStatuses == {"FAILED", "SUSPENDED"}
StackStatuses == {"COMPLETE", "IN_PROGRESS"} \cup FailureStatuses

ResourceStatuses == {"DELETE_FAILED", "DELETE_COMPLETE"}
ResourceTypes == {"OS::Cinder::Volume", "OS::Nova::Server", "OS::Neutron::Net"}

Timeouts == {-PollInterval, 0, PollInterval, MaxTimeout}

\* the timeouts handed to wait_for_completion when it is run alone
PollTimeouts == (-PollInterval)..MaxPollTimeout

NoExc == [type |-> "", arg |-> ""]
Exc(t, a) == [type |-> t, arg |-> a]
\* any error of a remote call other than the poller's own FailedDeletion
ClientError == Exc("ClientError", "")

----------------------------------------------------------------------------
(* Sequences. *)

Range(s) == {s[i] : i \in 1..Len(s)}

\* all orderings of the set S (dict.items() of Python 2 has no fixed order)
Perms(S) == {s \in [1..Cardinality(S) -> S] : Range(s) = S}

IndexOf(s, x) == CHOOSE i \in 1..Len(s) : s[i] = x

----------------------------------------------------------------------------
(* topological_sort(items), lines 115-132.  A generator: `gen` is its      *)
(* suspended frame.  items is the list of keys still to place (each item   *)
(* stands for the pair (item, deps[item])), pos the index the for loop of  *)
(* line 121 has reached.                                                   *)

\* the generator object before its first next(): nothing has run yet
topological_sort(items) ==
    [items |-> items, pos |-> 0, remaining_items |-> <<>>, emitted |-> FALSE,
     provided |-> {}, state |-> "start", exc |-> ""]

RECURSIVE Scan(_, _), WhileItems(_, _)

\* a variant of Ready: one provided dependency is enough
ReadyAny(deps, g, item) ==
    deps[item] = {} \/ deps[item] \cap g.provided # {}

\* line 122: is the item ready to be emitted
Ready(deps, g, item) == deps[item] \subseteq g.provided

\* lines 121-132: the for loop from position g.pos on, up to the next yield,
\* the raise of line 130 or the end of the generator
Scan(deps, g) ==
    IF g.pos <= Len(g.items)
    THEN LET item == g.items[g.pos] IN
         IF Ready(deps, g, item)
         THEN [g EXCEPT !.state = "suspended"]
         ELSE Scan(deps, [g EXCEPT !.remaining_items = Append(@, item),
                                   !.pos = @ + 1])
    ELSE IF ~g.emitted
         THEN [g EXCEPT !.state = "raised",
                        !.exc = Raise("TopologicalSortFailure")]
         ELSE WhileItems(deps, [g EXCEPT !.items = g.remaining_items])

\* lines 117-119: the head of the while loop
WhileItems(deps, g) ==
    IF g.items = <<>>
    THEN [g EXCEPT !.state = "finished"]
    ELSE Scan(deps, [g EXCEPT !.remaining_items = <<>>, !.emitted = FALSE,
                              !.pos = 1])

\* the item a suspended generator has just yielded (line 123)
Yielded(g) == g.items[g.pos]

\* a variant of Resume: the item just yielded is also kept for the next round
ResumeRequeues(deps, g) ==
    IF g.state = "start"
    THEN WhileItems(deps, [g EXCEPT !.provided = {}])
    ELSE Scan(deps, [g EXCEPT !.provided = @ \cup {Yielded(g)},
                              !.emitted = TRUE,
                              !.remaining_items = Append(@, Yielded(g)),
                              !.pos = @ + 1])

\* next() on the generator: lines 124-125 after a yield, line 116 at the start
Resume(deps, g) ==
    IF g.state = "start"
    THEN WhileItems(deps, [g EXCEPT !.provided = {}])
    ELSE Scan(deps, [g EXCEPT !.provided = @ \cup {Yielded(g)},
                              !.emitted = TRUE,
                              !.pos = @ + 1])

----------------------------------------------------------------------------
(* wait_for_completion, lines 71-85: one evaluation of the loop condition  *)
(* and, when it holds, one pass through the loop body.  The result is the  *)
(* set of ways the step can end, one per answer of heat_client.stacks.get. *)

\* a variant of PollStatus: the sleep comes before the status is tested
PollStatusSleepsFirst(spent, status) ==
    IF status = "COMPLETE"
    THEN [kind |-> "return", spent |-> spent + PollInterval,
          status |-> status, exc |-> NoExc]
    ELSE IF status # "IN_PROGRESS"
    THEN [kind |-> "failed", spent |-> spent + PollInterval,
          status |-> status, exc |-> Exc(Raise("FailedDeletion"), status)]
    ELSE [kind |-> "loop", spent |-> spent + PollInterval, status |-> status,
          exc |-> NoExc]

\* a variant of PollStatus: line 83 is missing
PollStatusForgetsTime(spent, status) ==
    IF status = "COMPLETE"
    THEN [kind |-> "return", spent |-> spent, status |-> status, exc |-> NoExc]
    ELSE IF status # "IN_PROGRESS"
    THEN [kind |-> "failed", spent |-> spent, status |-> status,
          exc |-> Exc(Raise("FailedDeletion"), status)]
    ELSE [kind |-> "loop", spent |-> spent, status |-> status, exc |-> NoExc]

\* a variant of PollStatus: the elif of line 79 is missing
PollStatusNeverFails(spent, status) ==
    IF status = "COMPLETE"
    THEN [kind |-> "return", spent |-> spent, status |-> status, exc |-> NoExc]
    ELSE [kind |-> "loop", spent |-> spent + PollInterval, status |-> status,
          exc |-> NoExc]

\* lines 75-83: the loop body, given the status stacks.get returned

PollStatus(spent, status) ==
    IF status = "COMPLETE"
    THEN [kind |-> "return", spent |-> spent, status |-> status, exc |-> NoExc]
    ELSE IF status # "IN_PROGRESS"
    THEN [kind |-> "failed", spent |-> spent, status |-> status,
          exc |-> Exc(Raise("FailedDeletion"), status)]
    ELSE [kind |-> "loop", spent |-> spent + PollInterval, status |-> status,
          exc |-> NoExc]

\* a variant of wait_for_completion: the loop condition is spent <= timeout
WaitInclusive(spent, timeout, last) ==
    IF spent <= timeout
    THEN {PollStatus(spent, s) : s \in StackStatuses}
         \cup {[kind |-> "error", spent |-> spent, status |-> last,
                exc |-> ClientError]}
    ELSE {[kind |-> "return", spent |-> spent, status |-> last, exc |-> NoExc]}

\* lines 74-85: the loop condition, then the loop body for each possible
\* answer of stacks.get; last is the status of the previous pass
wait_for_completion(spent, timeout, last) ==
    IF spent < timeout
    THEN {PollStatus(spent, s) : s \in StackStatuses}
         \cup {[kind |-> "error", spent |-> spent, status |-> last,
                exc |-> ClientError]}
    ELSE {[kind |-> "return", spent |-> spent, status |-> last, exc |-> NoExc]}

----------------------------------------------------------------------------
(* The dependency graph of delete_stack, lines 145-153. *)

\* keys: every listed name (line 150) and every name in a required_by (153)
DependencyKeys(rs) ==
    DOMAIN rs \cup UNION {rs[r].required_by : r \in DOMAIN rs}

\* a variant of BuildDependencies: the edges of required_by the other way round
BuildDependenciesReversed(rs) ==
    [k \in DependencyKeys(rs) |->
        IF k \in DOMAIN rs THEN rs[k].required_by ELSE {}]

\* lines 145-153
BuildDependencies(rs) ==
    [k \in DependencyKeys(rs) |-> {r \in DOMAIN rs : k \in rs[r].required_by}]

\* a variant of ForceClient: the resource status is not looked at
ForceClientAnyStatus(r) ==
    IF r.resource_type = "OS::Cinder::Volume" THEN "cinder.volumes"
    ELSE IF r.resource_type = "OS::Nova::Server" THEN "nova.servers"
    ELSE ""

\* lines 157-161: the resources the forceful pass acts on, and the client used
ForceClient(r) ==
    IF r.resource_status = "DELETE_FAILED"
    THEN IF r.resource_type = "OS::Cinder::Volume" THEN "cinder.volumes"
         ELSE IF r.resource_type = "OS::Nova::Server" THEN "nova.servers"
         ELSE ""
    ELSE ""

\* a variant of ExceptPass: the handler lets the exception through
ExceptReraise(exc) == exc

\* lines 90 and 94, `except: pass`: the exception left after the handler
ExceptPass(exc) == NoExc

Resource == [resource_status : ResourceStatuses,
             resource_type : ResourceTypes,
             required_by : SUBSET ResourceNames]

Listings == UNION {[L -> Resource] : L \in SUBSET ResourceNames}

----------------------------------------------------------------------------
(* State. *)

VARIABLES
    pc,             \* the statement the script is at
    args,           \* the parsed command line (lines 201-237)
    caller,         \* which call of delete_stack is running: line 309 or 340
    stack_id,       \* the stack the script holds: "", "existing", "created"
    spent_time,     \* wait_for_completion's local counter
    e,              \* the FailedDeletion bound at line 144
    resources,      \* delete_stack: name -> resource record
    dependencies,   \* delete_stack: name -> set of names
    gen,            \* the topological_sort generator of line 155
    resource_name,  \* loop variable of line 155
    outcome,        \* how the process ended: exit status and stderr/stdout
    calls,          \* history: remote operations and sleeps, in order
    order,          \* history: the names topological_sort has yielded
    polls,          \* history: how each wait_for_completion call went
    swallowed       \* history: what the two handlers of the current
                    \* force_delete_resource call have caught

vars == <<pc, args, caller, stack_id, spent_time, e, resources, dependencies,
          gen, resource_name, outcome, calls, order, polls, swallowed>>

Running == [code |-> -1, word |-> "", msg |-> "", detail |-> NoExc]
NoPoll == [kind |-> "none", spent |-> 0, status |-> "", exc |-> NoExc]
NoSwallow == [delete |-> FALSE, force_delete |-> FALSE]

Call(op, res) == [op |-> op, call |-> caller, stack |-> stack_id, res |-> res]
Log(op, res) == Append(calls, Call(op, res))

\* lines 50-52
script_critical(msg, exc) ==
    [code |-> STATE_CRITICAL, word |-> "CRITICAL", msg |-> msg, detail |-> exc]

\* lines 55-57
script_warning(msg) ==
    [code |-> STATE_WARNING, word |-> "WARNING", msg |-> msg, detail |-> NoExc]

\* lines 344-345
script_ok ==
    [code |-> STATE_OK, word |-> "OK",
     msg |-> "Stack creation and deletion took", detail |-> NoExc]

\* an exception no handler catches: the interpreter prints the traceback and
\* exits with status 1
Uncaught(exc) ==
    [code |-> 1, word |-> "Traceback", msg |-> exc.type,
     detail |-> exc]

\* lines 333-334: what the try block of lines 300-331 does with an exception
CreateHandler(exc) ==
    script_critical("Error while creating the Heat stack", exc)

\* an exception leaving delete_stack: the call of line 309 is inside the try
\* block of line 300, the call of line 340 is at top level
Propagate(exc) ==
    IF caller = "existing" THEN CreateHandler(exc) ELSE Uncaught(exc)

Exit(o) == pc' = "exit" /\ outcome' = o

Args == [stack_name : BOOLEAN, force_delete : BOOLEAN,
         timeout : Timeouts, timeout_delete : Timeouts]

NoGen == topological_sort(<<>>)

Init ==
    /\ pc = "template"
    /\ args \in Args
    /\ caller = ""
    /\ stack_id = ""
    /\ spent_time = 0
    /\ e = NoExc
    /\ resources = <<>>
    /\ dependencies = <<>>
    /\ gen = NoGen
    /\ resource_name = 0
    /\ outcome = Running
    /\ calls = <<>>
    /\ order = <<>>
    /\ polls = [site \in {"create", "first", "retry"} |-> NoPoll]
    /\ swallowed = NoSwallow

----------------------------------------------------------------------------
(* The script, lines 299-345. *)

\* lines 301-302
LoadTemplate ==
    /\ pc = "template"
    /\ \E raised \in BOOLEAN :
        IF raised THEN Exit(CreateHandler(ClientError))
        ELSE pc' = "stacks_list" /\ UNCHANGED outcome
    /\ UNCHANGED <<args, caller, stack_id, spent_time, e, resources,
                   dependencies, gen, resource_name, calls, order, polls,
                   swallowed>>

\* lines 304-315
ListStacks ==
    /\ pc = "stacks_list"
    /\ IF ~args.stack_name
       THEN /\ pc' = "create"
            /\ UNCHANGED <<caller, stack_id, outcome, calls>>
       ELSE /\ calls' = Log("stacks.list", 0)
            /\ \E answer \in {"raised", "none", "found"} :
                CASE answer = "raised" ->
                        /\ Exit(CreateHandler(ClientError))
                        /\ UNCHANGED <<caller, stack_id>>
                  [] answer = "none" ->
                        /\ pc' = "create"
                        /\ UNCHANGED <<caller, stack_id, outcome>>
                  [] answer = "found" ->
                        /\ stack_id' = "existing"
                        /\ IF args.force_delete
                           THEN /\ pc' = "ds_delete"
                                /\ caller' = "existing"
                                /\ UNCHANGED outcome
                           ELSE /\ Exit(script_critical("Stack already exists",
                                                        NoExc))
                                /\ UNCHANGED caller
    /\ UNCHANGED <<args, spent_time, e, resources, dependencies, gen,
                   resource_name, order, polls, swallowed>>

\* lines 317-327
CreateStack ==
    /\ pc = "create"
    /\ \E raised \in BOOLEAN :
        IF raised
        THEN /\ calls' = Log("stacks.create", 0)
             /\ Exit(CreateHandler(ClientError))
             /\ UNCHANGED <<stack_id, spent_time>>
        ELSE /\ calls' = Log("stacks.create", 0)
                        \o <<[op |-> "wait_for_completion", call |-> caller,
                              stack |-> "created", res |-> 0]>>
             /\ stack_id' = "created"
             /\ pc' = "create_wait"
             /\ spent_time' = 0
             /\ UNCHANGED outcome
    /\ UNCHANGED <<args, caller, e, resources, dependencies, gen,
                   resource_name, order, polls, swallowed>>

\* where the script goes on and how it ends, if it does
Goto(label) == [pc |-> label, outcome |-> Running]
Halt(o) == [pc |-> "exit", outcome |-> o]

\* a variant of AfterCreatePoll: a failed create poll goes on to the teardown
AfterCreatePollTearsDown(r) ==
    IF r.kind = "return" /\ r.spent >= args.timeout
    THEN Halt(script_critical("Stack creation took too long", NoExc))
    ELSE Goto("sleep")

\* lines 329-334: what the script does with the way the create poll ended
AfterCreatePoll(r) ==
    IF r.kind = "return"
    THEN IF r.spent >= args.timeout
         THEN Halt(script_critical("Stack creation took too long", NoExc))
         ELSE Goto("sleep")
    ELSE Halt(CreateHandler(r.exc))

\* line 329, one step of wait_for_completion(heat_client, stack_id,
\* args.timeout), and lines 330-334 when it ends
CreatePoll ==
    /\ pc = "create_wait"
    /\ \E r \in wait_for_completion(spent_time, args.timeout,
                                    polls["create"].status) :
        /\ polls' = [polls EXCEPT !["create"] = r]
        /\ IF r.kind = "loop"
           THEN /\ spent_time' = r.spent
                /\ UNCHANGED <<pc, outcome>>
           ELSE /\ spent_time' = 0
                /\ pc' = AfterCreatePoll(r).pc
                /\ outcome' = AfterCreatePoll(r).outcome
    /\ UNCHANGED <<args, caller, stack_id, e, resources, dependencies, gen,
                   resource_name, calls, order, swallowed>>

\* lines 337-341: the pause, then the call of delete_stack for the new stack
FinalDelete ==
    /\ pc = "sleep"
    /\ pc' = "ds_delete"
    /\ caller' = "final"
    /\ calls' = Append(calls, [op |-> "sleep", call |-> "", stack |-> stack_id,
                               res |-> 10])
    /\ polls' = [polls EXCEPT !["first"] = NoPoll, !["retry"] = NoPoll]
    /\ UNCHANGED <<args, stack_id, spent_time, e, resources, dependencies, gen,
                   resource_name, outcome, order, swallowed>>

----------------------------------------------------------------------------
(* delete_stack, lines 135-171. *)

\* the timeout parameter: args.timeout_delete at both call sites
timeout == args.timeout_delete

\* delete_stack returns normally: line 313 goes on to create the stack,
\* lines 343-345 report OK
Return ==
    IF caller = "existing" THEN Goto("create") ELSE Halt(script_ok)

\* line 138
DeleteRequest ==
    /\ pc = "ds_delete"
    /\ \E raised \in BOOLEAN :
        IF raised
        THEN /\ calls' = Log("stacks.delete", 0)
             /\ Exit(Propagate(ClientError))
             /\ UNCHANGED spent_time
        ELSE /\ calls' = Log("stacks.delete", 0)
                        \o <<Call("wait_for_completion", 0)>>
             /\ pc' = "ds_wait"
             /\ spent_time' = 0
             /\ UNCHANGED outcome
    /\ UNCHANGED <<args, caller, stack_id, e, resources, dependencies, gen,
                   resource_name, order, polls, swallowed>>

\* a variant of AfterFirstPoll: the test of line 141 is missing
AfterFirstPollIgnoresTimeout(r) ==
    CASE r.kind = "return" ->
            Return
      [] r.kind = "failed" /\ r.exc.type = "FailedDeletion" ->
            Goto("ds_list")
      [] OTHER ->
            Halt(Propagate(r.exc))

\* lines 141-144: what delete_stack does with the way the first poll ended
AfterFirstPoll(r) ==
    CASE r.kind = "return" ->
            IF r.spent >= timeout
            THEN Halt(script_critical("Stack deletion took too long", NoExc))
            ELSE Return
      [] r.kind = "failed" /\ r.exc.type = "FailedDeletion" ->
            Goto("ds_list")
      [] OTHER ->
            Halt(Propagate(r.exc))

\* line 140, one step of wait_for_completion(heat_client, stack_id, timeout),
\* and lines 141-144 when it ends
FirstPoll ==
    /\ pc = "ds_wait"
    /\ \E r \in wait_for_completion(spent_time, timeout,
                                    polls["first"].status) :
        /\ polls' = [polls EXCEPT !["first"] = r]
        /\ IF r.kind = "loop"
           THEN /\ spent_time' = r.spent
                /\ UNCHANGED <<pc, outcome, e>>
           ELSE /\ spent_time' = 0
                /\ pc' = AfterFirstPoll(r).pc
                /\ outcome' = AfterFirstPoll(r).outcome
                /\ e' = IF AfterFirstPoll(r).pc = "ds_list" THEN r.exc ELSE e
    /\ caller' = IF pc' = "create" THEN "" ELSE caller
    /\ UNCHANGED <<args, stack_id, resources, dependencies, gen,
                   resource_name, calls, order, swallowed>>

\* lines 145-155: the listing, the graph, and the generator object of the
\* for loop over dependencies.items()
ListResources ==
    /\ pc = "ds_list"
    /\ calls' = Log("resources.list", 0)
    /\ \/ /\ Exit(Propagate(ClientError))
          /\ UNCHANGED <<resources, dependencies, gen>>
       \/ \E rs \in Listings :
            /\ resources' = rs
            /\ dependencies' = BuildDependencies(rs)
            /\ \E items \in Perms(DependencyKeys(rs)) :
                gen' = topological_sort(items)
            /\ pc' = "ds_for"
            /\ UNCHANGED outcome
    /\ UNCHANGED <<args, caller, stack_id, spent_time, e, resource_name,
                   order, polls, swallowed>>

\* line 155: the for loop asks the generator for the next name
ForNext ==
    /\ pc = "ds_for"
    /\ LET g == Resume(dependencies, gen) IN
        /\ gen' = g
        /\ CASE g.state = "suspended" ->
                    /\ resource_name' = Yielded(g)
                    /\ order' = Append(order, Yielded(g))
                    /\ pc' = "ds_body"
                    /\ UNCHANGED outcome
             [] g.state = "finished" ->
                    /\ pc' = "ds_redelete"
                    /\ UNCHANGED <<resource_name, order, outcome>>
             [] OTHER ->
                    /\ Exit(Propagate(Exc(g.exc, "")))
                    /\ UNCHANGED <<resource_name, order>>
    /\ UNCHANGED <<args, caller, stack_id, spent_time, e, resources,
                   dependencies, calls, polls, swallowed>>

\* lines 156-161, up to the call of force_delete_resource
LoopBody ==
    /\ pc = "ds_body"
    /\ IF resource_name \notin DOMAIN resources
       THEN /\ Exit(Propagate(Exc("KeyError", "")))
            /\ UNCHANGED <<calls, swallowed>>
       ELSE LET client == ForceClient(resources[resource_name]) IN
            IF client # ""
            THEN /\ pc' = "fdr_delete"
                 /\ calls' = Log("force_delete_resource", resource_name)
                 /\ swallowed' = NoSwallow
                 /\ UNCHANGED outcome
            ELSE /\ pc' = "ds_for"
                 /\ UNCHANGED <<outcome, calls, swallowed>>
    /\ UNCHANGED <<args, caller, stack_id, spent_time, e, resources,
                   dependencies, gen, resource_name, order, polls>>

\* force_delete_resource, lines 89-91
FdrDelete ==
    /\ pc = "fdr_delete"
    /\ \E raised \in BOOLEAN :
        LET left == IF raised THEN ExceptPass(ClientError) ELSE NoExc IN
        /\ swallowed' = [swallowed EXCEPT !.delete = raised]
        /\ IF left = NoExc
           THEN /\ calls' = Log("delete", resource_name)
                                \o <<Call("sleep", GracePeriod)>>
                /\ pc' = "fdr_force"
                /\ UNCHANGED outcome
           ELSE /\ calls' = Log("delete", resource_name)
                /\ Exit(Propagate(left))
    /\ UNCHANGED <<args, caller, stack_id, spent_time, e, resources,
                   dependencies, gen, resource_name, order, polls>>

\* force_delete_resource, lines 93-95, and the return to the loop
FdrForceDelete ==
    /\ pc = "fdr_force"
    /\ \E raised \in BOOLEAN :
        LET left == IF raised THEN ExceptPass(ClientError) ELSE NoExc IN
        /\ swallowed' = [swallowed EXCEPT !.force_delete = raised]
        /\ IF left = NoExc
           THEN /\ calls' = Log("force_delete", resource_name)
                                \o <<Call("sleep", GracePeriod),
                                     Call("return", resource_name)>>
                /\ pc' = "ds_for"
                /\ UNCHANGED outcome
           ELSE /\ calls' = Log("force_delete", resource_name)
                /\ Exit(Propagate(left))
    /\ UNCHANGED <<args, caller, stack_id, spent_time, e, resources,
                   dependencies, gen, resource_name, order, polls>>

\* line 163
DeleteAgain ==
    /\ pc = "ds_redelete"
    /\ \E raised \in BOOLEAN :
        IF raised
        THEN /\ calls' = Log("stacks.delete", 0)
             /\ Exit(Propagate(ClientError))
             /\ UNCHANGED spent_time
        ELSE /\ calls' = Log("stacks.delete", 0)
                        \o <<Call("wait_for_completion", 0)>>
             /\ pc' = "ds_rewait"
             /\ spent_time' = 0
             /\ UNCHANGED outcome
    /\ UNCHANGED <<args, caller, stack_id, e, resources, dependencies, gen,
                   resource_name, order, polls, swallowed>>

\* a variant of AfterRetryPoll: the second failure is the one reported
AfterRetryPollReportsSecond(r, first) ==
    CASE r.kind = "return" ->
            Halt(script_warning("Stack needed to force deleted"))
      [] r.kind = "failed" /\ r.exc.type = "FailedDeletion" ->
            Halt(script_critical("Error while deleting the Heat stack", r.exc))
      [] OTHER ->
            Halt(Propagate(r.exc))

\* a variant of AfterRetryPoll: no script_warning, line 171 is reached
AfterRetryPollNoWarning(r, first) ==
    CASE r.kind \in {"return", "failed"} ->
            Halt(script_critical("Error while deleting the Heat stack", first))
      [] OTHER ->
            Halt(Propagate(r.exc))

\* a variant of AfterRetryPoll: a failed retry starts the recovery again
AfterRetryPollRecoversAgain(r, first) ==
    CASE r.kind = "return" ->
            Halt(script_warning("Stack needed to force deleted"))
      [] r.kind = "failed" /\ r.exc.type = "FailedDeletion" ->
            Goto("ds_list")
      [] OTHER ->
            Halt(Propagate(r.exc))

\* lines 165-171: what delete_stack does with the way the retry poll ended;
\* first is the exception bound to e at line 144
AfterRetryPoll(r, first) ==
    CASE r.kind = "return" ->
            Halt(script_warning("Stack needed to force deleted"))
      [] r.kind = "failed" /\ r.exc.type = "FailedDeletion" ->
            Halt(script_critical("Error while deleting the Heat stack", first))
      [] OTHER ->
            Halt(Propagate(r.exc))

\* line 166, one step of the second wait_for_completion, and lines 167-171
\* when it ends
RetryPoll ==
    /\ pc = "ds_rewait"
    /\ \E r \in wait_for_completion(spent_time, timeout,
                                    polls["retry"].status) :
        /\ polls' = [polls EXCEPT !["retry"] = r]
        /\ IF r.kind = "loop"
           THEN /\ spent_time' = r.spent
                /\ UNCHANGED <<pc, outcome>>
           ELSE /\ spent_time' = 0
                /\ pc' = AfterRetryPoll(r, e).pc
                /\ outcome' = AfterRetryPoll(r, e).outcome
    /\ UNCHANGED <<args, caller, stack_id, e, resources, dependencies, gen,
                   resource_name, calls, order, swallowed>>

----------------------------------------------------------------------------

Next ==
    \/ LoadTemplate
    \/ ListStacks
    \/ CreateStack
    \/ CreatePoll
    \/ FinalDelete
    \/ DeleteRequest
    \/ FirstPoll
    \/ ListResources
    \/ ForNext
    \/ LoopBody
    \/ FdrDelete
    \/ FdrForceDelete
    \/ DeleteAgain
    \/ RetryPoll

Spec == Init /\ [][Next]_vars

----------------------------------------------------------------------------
(* topological_sort alone: every graph over Nodes, keys in every order,    *)
(* consumed to its end as list(topological_sort(items)) would.             *)

Graphs == UNION {[K -> SUBSET Nodes] : K \in SUBSET Nodes}

InitSort ==
    /\ pc = "sort"
    /\ args = [stack_name |-> FALSE, force_delete |-> FALSE,
               timeout |-> 0, timeout_delete |-> 0]
    /\ caller = ""
    /\ stack_id = ""
    /\ spent_time = 0
    /\ e = NoExc
    /\ resources = <<>>
    /\ dependencies \in Graphs
    /\ \E items \in Perms(DOMAIN dependencies) : gen = topological_sort(items)
    /\ resource_name = 0
    /\ outcome = Running
    /\ calls = <<>>
    /\ order = <<>>
    /\ polls = [site \in {"create", "first", "retry"} |-> NoPoll]
    /\ swallowed = NoSwallow

\* one next() of the consumer
SortNext ==
    /\ pc = "sort"
    /\ gen.state \in {"start", "suspended"}
    /\ gen' = Resume(dependencies, gen)
    /\ order' = IF gen'.state = "suspended"
                THEN Append(order, Yielded(gen'))
                ELSE order
    /\ UNCHANGED <<pc, args, caller, stack_id, spent_time, e, resources,
                   dependencies, resource_name, outcome, calls, polls,
                   swallowed>>

NextSort == SortNext

SortSpec == InitSort /\ [][NextSort]_vars

----------------------------------------------------------------------------
(* wait_for_completion alone: every timeout of PollTimeouts, every answer   *)
(* of stacks.get at every poll.  Here `calls` records each stacks.get and   *)
(* each sleep of the loop, and polls["first"] how the call stands.          *)

InitPoll ==
    /\ pc = "poll"
    /\ \E t \in PollTimeouts :
        args = [stack_name |-> FALSE, force_delete |-> FALSE,
                timeout |-> 0, timeout_delete |-> t]
    /\ caller = ""
    /\ stack_id = ""
    /\ spent_time = 0
    /\ e = NoExc
    /\ resources = <<>>
    /\ dependencies = <<>>
    /\ gen = NoGen
    /\ resource_name = 0
    /\ outcome = Running
    /\ calls = <<>>
    /\ order = <<>>
    /\ polls = [site \in {"create", "first", "retry"} |-> NoPoll]
    /\ swallowed = NoSwallow

\* lines 74-85: the loop condition and one pass through the loop body
PollStep ==
    /\ pc = "poll"
    /\ polls["first"].kind \in {"none", "loop"}
    /\ \E r \in wait_for_completion(spent_time, timeout,
                                    polls["first"].status) :
        /\ polls' = [polls EXCEPT !["first"] = r]
        /\ spent_time' = r.spent
        /\ calls' = calls
                \o (IF r.kind = "return" /\ r.status # "COMPLETE"
                    THEN <<>> ELSE <<Call("stacks.get", 0)>>)
                \o (IF r.kind = "loop"
                    THEN <<Call("sleep", PollInterval)>> ELSE <<>>)
    /\ UNCHANGED <<pc, args, caller, stack_id, e, resources, dependencies,
                   gen, resource_name, outcome, order, swallowed>>

NextPoll == PollStep

PollSpec == InitPoll /\ [][NextPoll]_vars

\* the interpreter always goes on with the loop
PollFairSpec == PollSpec /\ WF_vars(PollStep)

----------------------------------------------------------------------------
(* Graph notions the properties are stated with; none of them is used by   *)
(* the model of the code.                                                  *)

RECURSIVE Closure(_, _)
\* S and everything S depends on, directly or not
Closure(deps, S) ==
    LET T == S \cup UNION {deps[x] : x \in S \cap DOMAIN deps} IN
    IF T = S THEN S ELSE Closure(deps, T)

\* the direct and indirect dependencies of key n
TransDeps(deps, n) == Closure(deps, deps[n])

\* n is on a cycle, depends on a cycle, or depends on a name that is no key
Unresolvable(deps, n) ==
    \/ n \in TransDeps(deps, n)
    \/ \E m \in TransDeps(deps, n) : m \notin DOMAIN deps \/ m \in TransDeps(deps, m)

\* acyclic, and every dependency is a key
WellFormed(deps) == \A n \in DOMAIN deps : ~Unresolvable(deps, n)

NoDuplicates(s) == \A i, j \in 1..Len(s) : s[i] = s[j] => i = j

\* every name of s has all of its dependencies strictly earlier in s
DependenciesFirst(deps, s) ==
    \A i \in 1..Len(s) : deps[s[i]] \subseteq {s[j] : j \in 1..(i - 1)}

----------------------------------------------------------------------------
(* C6 (SortSpec): on a graph that is acyclic and whose dependencies are    *)
(* all keys, topological_sort never raises, never emits a name twice or a  *)
(* name before one of its dependencies, and when it stops it has emitted   *)
(* every key exactly once.                                                 *)
C6_SortsAcyclicGraphs ==
    WellFormed(dependencies) =>
        /\ gen.state # "raised"
        /\ NoDuplicates(order)
        /\ Range(order) \subseteq DOMAIN dependencies
        /\ DependenciesFirst(dependencies, order)
        /\ gen.state = "finished" => Range(order) = DOMAIN dependencies

\* a chain of three keys handed over in the wrong order has been sorted
C6_Witness ==
    /\ gen.state = "finished"
    /\ dependencies = (1 :> {2} @@ 2 :> {3} @@ 3 :> {})
    /\ gen.items = <<>>
    /\ order = <<3, 2, 1>>

(* C7 (SortSpec), as claimed: on a graph with a cycle, a self-dependency   *)
(* or a dependency that is no key, topological_sort never finishes         *)
(* normally, ends by raising TopologicalSortFailure, emits only names      *)
(* whose dependencies were emitted earlier, and emits no name that is on   *)
(* a cycle or depends on an unresolvable name.                             *)
C7_RaisesTopologicalSortFailure ==
    ~WellFormed(dependencies) =>
        /\ gen.state # "finished"
        /\ gen.state = "raised" => gen.exc = "TopologicalSortFailure"
        /\ DependenciesFirst(dependencies, order)
        /\ \A i \in 1..Len(order) : ~Unresolvable(dependencies, order[i])

\* what the code does keep of C7: the failure is an exception (NameError),
\* and the names emitted before it are legitimate
C7_FailsWithSomeException ==
    ~WellFormed(dependencies) =>
        /\ gen.state # "finished"
        /\ gen.state = "raised" => gen.exc = "NameError"
        /\ NoDuplicates(order)
        /\ DependenciesFirst(dependencies, order)
        /\ \A i \in 1..Len(order) : ~Unresolvable(dependencies, order[i])

----------------------------------------------------------------------------
(* Notions over the histories. *)

\* how many times the call c of delete_stack has performed op
Count(op, c) ==
    Cardinality({i \in 1..Len(calls) : calls[i].op = op /\ calls[i].call = c})

CountAll(op) == Cardinality({i \in 1..Len(calls) : calls[i].op = op})

\* x occurs in s, and before every occurrence of y
Before(s, x, y) ==
    /\ x \in Range(s)
    /\ y \in Range(s) => IndexOf(s, x) < IndexOf(s, y)

\* the force_delete_resource calls, as the sequence of their resources
RECURSIVE ForcedOf(_)
ForcedOf(log) ==
    IF log = <<>> THEN <<>>
    ELSE IF Head(log).op = "force_delete_resource"
         THEN <<Head(log).res>> \o ForcedOf(Tail(log))
         ELSE ForcedOf(Tail(log))

Forced == ForcedOf(calls)

\* a delete request for stack s has been issued
DeleteIssued(s) ==
    \E i \in 1..Len(calls) : calls[i].op = "stacks.delete" /\ calls[i].stack = s

Exited == pc = "exit"

----------------------------------------------------------------------------
C2_TimeoutIsCritical ==
    \A site \in {"first", "retry"} :
        (Exited /\ polls[site].kind = "return" /\ polls[site].spent >= timeout)
            => outcome.code = STATE_CRITICAL

\* what the code does keep of C2: the first poll's timeout is CRITICAL
C2_FirstTimeoutIsCritical ==
    (Exited /\ polls["first"].kind = "return" /\ polls["first"].spent >= timeout)
        => outcome = script_critical("Stack deletion took too long", NoExc)

(* C3: when the first poll of delete_stack raised FailedDeletion with      *)
(* status S1 and the retry poll raised it with status S2, the probe ends   *)
(* CRITICAL and its message carries S1, not S2.                            *)
C3_FirstFailureReported ==
    (Exited /\ polls["first"].kind = "failed" /\ polls["retry"].kind = "failed")
        => /\ outcome = script_critical("Error while deleting the Heat stack",
                            Exc("FailedDeletion", polls["first"].status))
           /\ polls["retry"].status # polls["first"].status
                  => outcome.detail.arg # polls["retry"].status

\* both polls failed, with different statuses
C3_Witness ==
    /\ Exited
    /\ polls["first"].kind = "failed" /\ polls["first"].status = "FAILED"
    /\ polls["retry"].kind = "failed" /\ polls["retry"].status = "SUSPENDED"
    /\ outcome.detail.arg = "FAILED"

(* C4: when the first poll failed, the forceful pass ran and the retry     *)
(* poll observed COMPLETE, the probe ends WARNING (needed force delete).   *)
C4_ForcedDeletionWarns ==
    (/\ Exited
     /\ polls["first"].kind = "failed"
     /\ polls["retry"].kind = "return"
     /\ polls["retry"].status = "COMPLETE")
        => outcome = script_warning("Stack needed to force deleted")

\* one stuck volume without dependents was force-deleted and the retry
\* succeeded
C4_Witness ==
    /\ Exited
    /\ polls["first"].kind = "failed"
    /\ polls["retry"].kind = "return" /\ polls["retry"].status = "COMPLETE"
    /\ DOMAIN resources = {1}
    /\ resources[1] = [resource_status |-> "DELETE_FAILED",
                       resource_type |-> "OS::Cinder::Volume",
                       required_by |-> {}]
    /\ Forced = <<1>>
    /\ outcome.word = "WARNING"

(* C5, as claimed: when topological_sort fails during the recovery pass,   *)
(* the probe ends CRITICAL, for either call of delete_stack.               *)
C5_SortFailureIsCritical ==
    (Exited /\ gen.state = "raised") => outcome.code = STATE_CRITICAL

\* what the code does keep of C5: the probe ends at once; the call of line
\* 309 ends CRITICAL through the handler of the create path, the call of
\* line 340 with a traceback
C5_SortFailureEndsTheProbe ==
    gen.state = "raised" =>
        /\ Exited
        /\ caller = "existing" =>
               outcome = CreateHandler(Exc("NameError", ""))
        /\ caller = "final" => outcome = Uncaught(Exc("NameError", ""))

(* C8, as claimed: in every run in which stacks.create returned a stack    *)
(* id, a delete request for that stack is issued before the probe ends.    *)
C8_CreatedStackDeleted ==
    (Exited /\ stack_id = "created") => DeleteIssued("created")

\* the create poll saw COMPLETE within args.timeout
CreateCompleted ==
    /\ polls["create"].kind = "return"
    /\ polls["create"].status = "COMPLETE"
    /\ polls["create"].spent < args.timeout

(* C8, amended: in every run in which stacks.create returned a stack id    *)
(* and the create poll observed COMPLETE before the timeout, a delete      *)
(* request for that stack is issued before the probe ends; when the create *)
(* poll fails, raises or times out, the probe ends CRITICAL and no delete  *)
(* request for that stack is issued.                                       *)
C8_CompletedStackDeleted ==
    (Exited /\ stack_id = "created") =>
        IF CreateCompleted
        THEN DeleteIssued("created")
        ELSE outcome.code = STATE_CRITICAL /\ ~DeleteIssued("created")

\* the stack was created, completed, and its deletion requested
C8_Witness ==
    /\ Exited
    /\ stack_id = "created"
    /\ CreateCompleted
    /\ DeleteIssued("created")
    /\ outcome.word = "OK"

(* C9: one call of delete_stack issues the stack delete request at most    *)
(* twice, lists the resources (and so runs the forceful pass) at most      *)
(* once and calls wait_for_completion at most twice; a retry poll that     *)
(* raised ends the probe.                                                  *)
C9_OneRecoveryAttempt ==
    /\ \A c \in {"existing", "final"} :
        /\ Count("stacks.delete", c) <= 2
        /\ Count("resources.list", c) <= 1
        /\ Count("wait_for_completion", c) <= 2
    /\ polls["retry"].kind \in {"failed", "error"} => Exited

\* a call that used its whole budget: two requests, one listing, two polls,
\* and the retry failed
C9_Witness ==
    /\ Exited
    /\ Count("stacks.delete", "final") = 2
    /\ Count("resources.list", "final") = 1
    /\ Count("wait_for_completion", "final") = 2
    /\ polls["retry"].kind = "failed"

(* C10: every call of force_delete_resource returns to the loop of the     *)
(* forceful pass, whatever client.delete and client.force_delete raise:    *)
(* outside the function every call made has returned, and the probe never  *)
(* ends inside it.                                                         *)
C10_ForceDeleteReturns ==
    CountAll("return")
        + (IF pc \in {"fdr_delete", "fdr_force"} THEN 1 ELSE 0)
            = CountAll("force_delete_resource")

\* both calls raised for the first resource and the pass has gone on to the
\* second
C10_Witness ==
    /\ swallowed = [delete |-> TRUE, force_delete |-> TRUE]
    /\ CountAll("return") = 1
    /\ Len(order) = 2
    /\ pc = "ds_body"

\* a resource the forceful pass is meant for
Stuck(r) ==
    /\ r.resource_status = "DELETE_FAILED"
    /\ r.resource_type \in {"OS::Cinder::Volume", "OS::Nova::Server"}

ResourceOps == {"force_delete_resource", "delete", "force_delete"}

(* C11: force_delete_resource, and so every delete and force-delete call,  *)
(* is issued only for listed resources that are DELETE_FAILED and of type  *)
(* OS::Cinder::Volume or OS::Nova::Server; once the order has been         *)
(* produced to its end, every such resource has been force-deleted.        *)
C11_OnlyStuckVolumesAndServers ==
    /\ \A i \in 1..Len(calls) :
        calls[i].op \in ResourceOps =>
            /\ calls[i].res \in DOMAIN resources
            /\ Stuck(resources[calls[i].res])
    /\ gen.state = "finished" =>
        \A n \in DOMAIN resources :
            Stuck(resources[n]) => n \in Range(Forced)

\* a stuck server was force-deleted, a stuck network and nothing else was
\* left alone, and the order is complete
C11_Witness ==
    /\ gen.state = "finished"
    /\ DOMAIN resources = {1, 2}
    /\ resources[1].resource_status = "DELETE_FAILED"
    /\ resources[1].resource_type = "OS::Nova::Server"
    /\ resources[2].resource_status = "DELETE_FAILED"
    /\ resources[2].resource_type = "OS::Neutron::Net"
    /\ Forced = <<1>>
    /\ order = <<2, 1>>

Sites == {"create", "first", "retry"}

\* the poll at site s has raised FailedDeletion
Failed(s) == polls[s].kind = "failed"

\* C12, in every state: a status other than COMPLETE and IN_PROGRESS is
\* never polled without the exception, which carries it; a failed first poll
\* is in the recovery path; a failed create poll has ended the probe
\* CRITICAL, without listing or deleting anything
C12_FailureState ==
    /\ \A s \in Sites :
        /\ polls[s].status \in FailureStatuses => Failed(s)
        /\ Failed(s) =>
            /\ polls[s].status \notin {"COMPLETE", "IN_PROGRESS"}
            /\ polls[s].exc = Exc("FailedDeletion", polls[s].status)
    /\ Failed("first") =>
        /\ e = polls["first"].exc
        /\ pc = "ds_list" \/ Count("resources.list", caller) = 1
    /\ Failed("create") =>
        /\ Exited
        /\ outcome = script_critical("Error while creating the Heat stack",
                                     polls["create"].exc)
        /\ CountAll("resources.list") = 0
        /\ ~DeleteIssued("created")

\* C12, in every step: the failing poll adds no sleep to the time spent, and
\* a call that has failed polls and sleeps no more
C12_FailureStep ==
    \A s \in Sites :
        /\ Failed(s)' /\ ~Failed(s) =>
            polls'[s].spent = spent_time /\ spent_time' = 0
        /\ Failed(s) => polls'[s] = polls[s]

(* C12: wait_for_completion raises FailedDeletion as soon as a polled      *)
(* status is neither COMPLETE nor IN_PROGRESS, the exception carries that  *)
(* status, and the call polls and sleeps no more; in delete_stack the      *)
(* failure of the first poll starts the recovery path, in the create path  *)
(* it ends the probe CRITICAL with no recovery.                            *)
C12_FailureRaisedAtOnce == []C12_FailureState /\ [][C12_FailureStep]_vars

\* the first poll of delete_stack slept once, then read SUSPENDED, and the
\* recovery is about to list the resources
C12_Witness ==
    /\ Failed("first")
    /\ polls["first"].status = "SUSPENDED"
    /\ polls["first"].spent = PollInterval
    /\ e = Exc("FailedDeletion", "SUSPENDED")
    /\ pc = "ds_list"

----------------------------------------------------------------------------
(* wait_for_completion alone (PollSpec) *)

\* how the call of PollSpec stands, and the polls and sleeps it made so far
Poll == polls["first"]
Gets == CountAll("stacks.get")
Sleeps == CountAll("sleep")

\* a returned call that saw COMPLETE slept once per earlier poll, 5 units
\* each, and did nothing after the poll that saw COMPLETE; a call that
\* returned without seeing COMPLETE had used up its timeout
C13_ElapsedState ==
    /\ Poll.kind = "return" /\ Poll.status = "COMPLETE" =>
        /\ Gets >= 1
        /\ Sleeps = Gets - 1
        /\ Poll.spent = 5 * (Gets - 1)
        /\ calls[Len(calls)].op = "stacks.get"
    /\ Poll.kind = "return" /\ Poll.status # "COMPLETE" => 5 * Gets >= timeout
    /\ \A i \in 1..Len(calls) : calls[i].op = "sleep" => calls[i].res = 5

\* after k IN_PROGRESS answers with 5*k < timeout, the answer COMPLETE makes
\* the call return 5*k
C13_ElapsedStep ==
    /\ Poll.kind \in {"none", "loop"}
    /\ 5 * Gets < timeout
    /\ Poll'.status = "COMPLETE"
    => Poll'.kind = "return" /\ Poll'.spent = 5 * Gets

(* C13: for k IN_PROGRESS answers followed by COMPLETE, with 5*k < timeout, *)
(* wait_for_completion returns exactly 5*k: one sleep of 5 per IN_PROGRESS  *)
(* answer and none after COMPLETE.                                          *)
C13_ReturnsFiveTimesWaits == []C13_ElapsedState /\ [][C13_ElapsedStep]_vars

\* IN_PROGRESS, IN_PROGRESS, COMPLETE with timeout 15 returns 10
C13_Witness ==
    /\ pc = "poll"
    /\ timeout = 15
    /\ Poll.kind = "return"
    /\ Poll.status = "COMPLETE"
    /\ Gets = 3
    /\ Sleeps = 2
    /\ Poll.spent = 10

\* ceil(timeout / 5), and no poll at all for a timeout that is not positive
MaxPolls == IF timeout <= 0 THEN 0 ELSE (timeout + 4) \div 5

\* the answers so far were all IN_PROGRESS
StaysInProgress ==
    /\ Poll.kind \in {"none", "loop", "return"}
    /\ Poll.status \in {"", "IN_PROGRESS"}

\* never more than ceil(timeout/5) polls; a call that returns after
\* IN_PROGRESS answers only returns at least its timeout
C14_BoundedPolls ==
    /\ Gets <= MaxPolls
    /\ StaysInProgress /\ Poll.kind = "return" =>
        /\ Poll.spent >= timeout
        /\ Poll.spent = 5 * Gets
        /\ Gets = MaxPolls

\* the call is over: it returned or it raised
PollOver == Poll.kind \in {"return", "failed", "error"}

(* C14: whatever the timeout, a call whose answers stay IN_PROGRESS ends    *)
(* after at most ceil(timeout/5) polls and returns a value >= timeout.      *)
C14_TimesOutInBoundedPolls == []C14_BoundedPolls /\ <>PollOver

\* timeout 12: three IN_PROGRESS answers, then 15 is returned
C14_Witness ==
    /\ pc = "poll"
    /\ timeout = 12
    /\ Poll.kind = "return"
    /\ Poll.status = "IN_PROGRESS"
    /\ Gets = 3
    /\ Poll.spent = 15

----------------------------------------------------------------------------
(* The outcome of the probe (Spec) *)

\* the poll at site s returned having seen COMPLETE within t
Completed(s, t) ==
    /\ polls[s].kind = "return"
    /\ polls[s].status = "COMPLETE"
    /\ polls[s].spent < t

\* the poll at site s ended by an exception, or returned on its timeout t
Raised(s) == polls[s].kind \in {"failed", "error"}
TimedOut(s, t) == polls[s].kind = "return" /\ polls[s].spent >= t

\* OK is reported by the final delete_stack only, after both polls saw
\* COMPLETE in time; a create failure, a create timeout and a delete timeout
\* end the run at once with CRITICAL or, outside the try block, a traceback;
\* after a delete failure the run stays in delete_stack and never ends OK
C15_OutcomeState ==
    /\ outcome # Running <=> Exited
    /\ outcome.code = STATE_OK \/ outcome.word = "OK" =>
        /\ outcome = script_ok
        /\ caller = "final"
        /\ Completed("create", args.timeout)
        /\ Completed("first", timeout)
        /\ polls["retry"] = NoPoll
    /\ Raised("create") \/ TimedOut("create", args.timeout) =>
        /\ Exited
        /\ outcome.code = STATE_CRITICAL
        /\ ~DeleteIssued("created")
    /\ TimedOut("first", timeout) =>
        /\ Exited
        /\ outcome = script_critical("Stack deletion took too long", NoExc)
    /\ Raised("first") =>
        /\ pc \notin {"create", "create_wait", "sleep"}
        /\ outcome.code # STATE_OK
        /\ Exited => outcome.code \in {STATE_WARNING, STATE_CRITICAL, 1}
    /\ Exited /\ CountAll("stacks.create") = 1 /\ polls["create"] = NoPoll =>
        outcome.code = STATE_CRITICAL

\* the step that reports the outcome ends the run, and a reported outcome is
\* followed by no remote operation
C15_OutcomeStep ==
    /\ outcome' # Running => pc' = "exit"
    /\ outcome # Running => calls' = calls /\ outcome' = outcome

(* C15: OK is reported only when the create poll saw COMPLETE before the    *)
(* create timeout and the first poll of the final delete_stack saw COMPLETE *)
(* before timeout_delete; a create failure, a create timeout, a delete      *)
(* timeout or a delete failure ends the run with a non-OK outcome, and no   *)
(* remote operation follows a reported outcome.                             *)
C15_OkOnlyAfterBothComplete == []C15_OutcomeState /\ [][C15_OutcomeStep]_vars

\* a run that ends OK after one IN_PROGRESS answer at each of the two polls
C15_Witness ==
    /\ Exited
    /\ outcome = script_ok
    /\ polls["create"].spent = PollInterval
    /\ polls["first"].spent = PollInterval

----------------------------------------------------------------------------
(* force_delete_resource (Spec) *)

\* what one call of force_delete_resource for resource n adds to calls after
\* its own entry
Protocol(n) ==
    <<Call("delete", n), Call("sleep", GracePeriod),
      Call("force_delete", n), Call("sleep", GracePeriod), Call("return", n)>>

\* the entries of calls from index i on, at most k of them
From(i, k) ==
    SubSeq(calls, i, IF i + k - 1 <= Len(calls) THEN i + k - 1 ELSE Len(calls))

IsPrefix(s, t) == Len(s) <= Len(t) /\ s = SubSeq(t, 1, Len(s))

\* the entries of the current call: the ones after the last
\* force_delete_resource entry
InCall == pc \in {"fdr_delete", "fdr_force"}

(* C16: for one resource, force_delete_resource issues one delete call, a   *)
(* wait of 15, one force_delete call and a wait of 15, in this order, and   *)
(* the force_delete call is issued also when the delete call raised.        *)
C16_DeleteWaitForceWait ==
    \A i \in 1..Len(calls) : calls[i].op = "force_delete_resource" =>
        LET n == calls[i].res
            done == From(i + 1, 5)
        IN  /\ IsPrefix(done, Protocol(n))
            /\ 15 = GracePeriod
            /\ Len(done) < 5 => i = Len(calls) - Len(done) /\ InCall
            /\ Len(done) = 0 <=> (i = Len(calls) /\ pc = "fdr_delete")
            /\ Len(done) = 2 <=> (i = Len(calls) - 2 /\ pc = "fdr_force")
            /\ Len(done) \in {0, 2, 5}
            /\ \A j \in 1..Len(calls) :
                    calls[j].op \in {"delete", "force_delete", "return"}
                    /\ calls[j].res = n /\ calls[j].call = calls[i].call
                    => j \in (i + 1)..(i + 5)

\* a call whose delete raised and which went on to force_delete and returned
C16_Witness ==
    /\ pc = "ds_for"
    /\ swallowed.delete
    /\ ~swallowed.force_delete
    /\ Len(calls) >= 6
    /\ calls[Len(calls)].op = "return"
    /\ calls[Len(calls) - 2].op = "force_delete"
    /\ calls[Len(calls) - 4].op = "delete"
    /\ calls[Len(calls) - 5].op = "force_delete_resource"

----------------------------------------------------------------------------
(* The graph of the recovery pass (Spec) *)

\* the listed resources that name k in their required_by
NamedBy(k) == {m \in DOMAIN resources : k \in resources[m].required_by}

(* C17: the graph built in delete_stack has no dangling edge: every name in *)
(* a dependency set is a key, every listed resource name is a key, and a    *)
(* resource that no listed resource names in its required_by has an empty   *)
(* dependency set.                                                          *)
C17_NoDanglingEdges ==
    /\ \A k \in DOMAIN dependencies : dependencies[k] \subseteq DOMAIN dependencies
    /\ DOMAIN resources \subseteq DOMAIN dependencies
    /\ \A n \in DOMAIN resources : NamedBy(n) = {} => dependencies[n] = {}
    /\ \A k \in DOMAIN dependencies : dependencies[k] \subseteq DOMAIN resources

\* the listing holds resource 1 only, required by the unlisted resource 2:
\* both are keys, 1 has no dependency and 2 depends on 1
C17_Witness ==
    /\ pc = "ds_for"
    /\ DOMAIN resources = {1}
    /\ resources[1].required_by = {2}
    /\ DOMAIN dependencies = {1, 2}
    /\ dependencies[1] = {}
    /\ dependencies[2] = {1}

----------------------------------------------------------------------------
(* What the value returned by wait_for_completion tells (Spec) *)

\* the timeout handed to wait_for_completion at each of its three call sites
TimeoutAt(s) == IF s = "create" THEN args.timeout ELSE timeout

\* the call that returns at once: no answer read, nothing slept
NoPollReturn == [kind |-> "return", spent |-> 0, status |-> "", exc |-> NoExc]

(* C18: wait_for_completion returns a value below its timeout exactly when  *)
(* its last poll saw COMPLETE, and a value >= timeout exactly when COMPLETE *)
(* was never seen; with a timeout <= 0 it returns 0 without any poll, and   *)
(* its callers report that as a timeout.                                    *)
C18_ReturnTellsSuccess ==
    /\ \A s \in Sites :
        /\ polls[s].kind = "return" =>
            /\ polls[s].spent < TimeoutAt(s) <=> polls[s].status = "COMPLETE"
            /\ polls[s].spent >= TimeoutAt(s) <=> polls[s].status # "COMPLETE"
        /\ TimeoutAt(s) <= 0 /\ polls[s].kind # "none" => polls[s] = NoPollReturn
    /\ args.timeout <= 0 /\ polls["create"].kind # "none" =>
        /\ Exited
        /\ outcome = script_critical("Stack creation took too long", NoExc)
    /\ timeout <= 0 /\ polls["first"].kind # "none" =>
        /\ Exited
        /\ outcome = script_critical("Stack deletion took too long", NoExc)
        /\ polls["retry"] = NoPoll

\* the final delete_stack with a negative timeout_delete: the poll returns 0
\* with no answer read and the probe reports the deletion as too long
C18_Witness ==
    /\ Exited
    /\ caller = "final"
    /\ timeout < 0
    /\ polls["create"].status = "COMPLETE"
    /\ polls["first"] = NoPollReturn
    /\ outcome = script_critical("Stack deletion took too long", NoExc)

----------------------------------------------------------------------------
(* The lookup of line 156 (Spec) *)

(* C19: in the recovery pass every name the scheduler emits has a resource  *)
(* record in the listing, so the lookup of line 156 never fails, whatever   *)
(* the listing, also when a required_by names a resource that is not        *)
(* listed.                                                                  *)
C19_EmittedNamesAreListed ==
    /\ \A i \in 1..Len(order) : order[i] \in DOMAIN resources
    /\ outcome.detail.type # "KeyError"

----------------------------------------------------------------------------
(* The order of the recovery path (Spec) *)

\* the places in calls of the entries op of the running delete_stack call
Places(op) == {i \in 1..Len(calls) : calls[i].op = op /\ calls[i].call = caller}

\* every place of A is before every place of B
AllBefore(A, B) == \A i \in A : \A j \in B : i < j

\* the places of the calls on resources, of the second stack delete request
\* and of the retry poll
ResourcePlaces == UNION {Places(op) : op \in ResourceOps}
SecondDelete == {i \in Places("stacks.delete") : \E j \in Places("stacks.delete") : j < i}
SecondWait ==
    {i \in Places("wait_for_completion") : \E j \in Places("wait_for_completion") : j < i}

(* C20: in the recovery path the resource listing comes first, then all     *)
(* force_delete_resource calls, then the second stack delete request, then  *)
(* the retry poll: no resource delete or force-delete call follows the      *)
(* second stack delete request, and each resource is force-deleted at most  *)
(* once.                                                                    *)
C20_RecoveryOrder ==
    /\ Cardinality(Places("resources.list")) <= 1
    /\ Cardinality(Places("stacks.delete")) <= 2
    /\ Cardinality(Places("wait_for_completion")) <= 2
    /\ AllBefore(Places("resources.list"), ResourcePlaces)
    /\ AllBefore(Places("resources.list"), SecondDelete)
    /\ AllBefore(ResourcePlaces, SecondDelete)
    /\ AllBefore(SecondDelete, SecondWait)
    /\ ResourcePlaces # {} \/ SecondDelete # {} => Places("resources.list") # {}
    /\ SecondWait # {} => SecondDelete # {}
    /\ polls["retry"].kind # "none" => SecondWait # {}
    /\ \A n \in ResourceNames :
        /\ Cardinality({i \in Places("force_delete_resource") : calls[i].res = n}) <= 1
        /\ Cardinality({i \in Places("delete") : calls[i].res = n}) <= 1
        /\ Cardinality({i \in Places("force_delete") : calls[i].res = n}) <= 1

\* two resources force-deleted, then the second delete and the retry poll
C20_Witness ==
    /\ Cardinality(Places("force_delete_resource")) = 2
    /\ Cardinality(Places("force_delete")) = 2
    /\ SecondDelete # {}
    /\ SecondWait # {}
    /\ polls["retry"].kind = "return"
    /\ Exited

====
